---------------------------- MODULE Spec2Model ----------------------------
(***************************************************************************)
(* A model of src/utils/auto-generated.ts: the default warning text        *)
(* (generateAutoGeneratedWarningText) and the frame renderer               *)
(* (generateAutoGeneratedWarningFrame).                                    *)
(*                                                                         *)
(* A string is a sequence of one-character strings, so that length,        *)
(* concatenation, repetition, splitting and joining are computed and not   *)
(* assumed.  An optional field is None (absent) or Some(v).                *)
(***************************************************************************)
EXTENDS Integers, Sequences, FiniteSets

VARIABLES options, platform, pc, frame, text

vars == <<options, platform, pc, frame, text>>

---------------------------------------------------------------------------
(* Optional values and generic sequence helpers.                           *)

None == <<>>

Some(x) == <<x>>

IsSome(o) == Len(o) = 1

Get(o) == o[1]

Opt(S) == {None} \cup {Some(x) : x \in S}

BoundedSeq(S, n) == UNION {[1..k -> S] : k \in 0..n}

\* The concatenation of a sequence of sequences (by halves, to keep the
\* evaluation shallow on long texts).
RECURSIVE Concat(_)
Concat(ss) ==
    IF Len(ss) = 0 THEN <<>>
    ELSE IF Len(ss) = 1 THEN ss[1]
    ELSE LET h == Len(ss) \div 2
         IN  Concat(SubSeq(ss, 1, h)) \o Concat(SubSeq(ss, h + 1, Len(ss)))

Max2(a, b) == IF a >= b THEN a ELSE b

Min2(a, b) == IF a <= b THEN a ELSE b

---------------------------------------------------------------------------
(* Bounds of the model.                                                    *)

MaxLines == 3

MaxFillerLen == 2

MaxAlignLen == 2

MaxLineWidth == 5

---------------------------------------------------------------------------
(* generateAutoGeneratedWarningText                                        *)

baseWarning ==
    <<
       "W", "A", "R", "N", "I", "N", "G", ":", " ", "A", "U", "T",
       "O", "-", "G", "E", "N", "E", "R", "A", "T", "E", "D", " ",
       "F", "I", "L", "E", " ", "-", " ", "D", "O", " ", "N", "O",
       "T", " ", "E", "D", "I", "T", "!", "\n", "\n", "P", "l", "e",
       "a", "s", "e", " ", "b", "e", " ", "a", "d", "v", "i", "s",
       "e", "d", " ", "t", "h", "a", "t", " ", "t", "h", "i", "s",
       " ", "i", "s", " ", "a", "n", " ", "a", "u", "t", "o", "-",
       "g", "e", "n", "e", "r", "a", "t", "e", "d", " ", "f", "i",
       "l", "e", " ", "a", "n", "d", " ", "s", "h", "o", "u", "l",
       "d", " ", "N", "O", "T", " ", "b", "e", " ", "m", "o", "d",
       "i", "f", "i", "e", "d", ".", " ", "A", "n", "y", " ", "c",
       "h", "a", "n", "g", "e", "s", " ", "m", "a", "d", "e", " ",
       "t", "o", " ", "t", "h", "i", "s", " ", "f", "i", "l", "e",
       " ", "W", "I", "L", "L", " ", "B", "E", " ", "O", "V", "E",
       "R", "W", "R", "I", "T", "T", "E", "N", "." >>

sourceHintPrefix ==
    <<
       "\n", "\n", "T", "o", " ", "m", "a", "k", "e", " ", "c", "h",
       "a", "n", "g", "e", "s", " ", "t", "o", " ", "t", "h", "e",
       " ", "c", "o", "n", "t", "e", "n", "t", "s", " ", "o", "f",
       " ", "t", "h", "i", "s", " ", "f", "i", "l", "e", ",", " ",
       "p", "l", "e", "a", "s", "e", " ", "m", "o", "d", "i", "f",
       "y", " ", "t", "h", "e", " " >>

sourceHintSuffix ==
    <<
       " ", "f", "i", "l", "e", " ", "i", "n", "s", "t", "e", "a",
       "d", ".", " ", "T", "h", "i", "s", " ", "w", "i", "l", "l",
       " ", "e", "n", "s", "u", "r", "e", " ", "t", "h", "a", "t",
       " ", "y", "o", "u", "r", " ", "c", "h", "a", "n", "g", "e",
       "s", " ", "a", "r", "e", " ", "p", "r", "o", "p", "e", "r",
       "l", "y", " ", "r", "e", "f", "l", "e", "c", "t", "e", "d",
       " ", "i", "n", " ", "t", "h", "e", " ", "a", "u", "t", "o",
       "-", "g", "e", "n", "e", "r", "a", "t", "e", "d", " ", "f",
       "i", "l", "e", "." >>

\* Lines 124-131.  `!sourceFileName` is true for an absent name and for the
\* empty string alike.
generateAutoGeneratedWarningText(sourceFileName) ==
    IF ~IsSome(sourceFileName) \/ Len(Get(sourceFileName)) = 0
    THEN baseWarning
    ELSE baseWarning \o sourceHintPrefix \o Get(sourceFileName) \o sourceHintSuffix

---------------------------------------------------------------------------
(* Predefined styles and defaults (lines 92-114).                          *)

YAML_FRAME_STYLE ==
    [filler |-> Some(<<"#">>), lineStart |-> None, lineEnd |-> None]

JS_MULTILINE_FRAME_STYLE ==
    [filler |-> Some(<<"*">>),
     lineStart |-> Some(<<"/", "*", " ">>),
     lineEnd |-> Some(<<" ", "*", "/">>)]

JS_SINGLELINE_FRAME_STYLE ==
    [filler |-> Some(<<"/", "/">>), lineStart |-> None, lineEnd |-> None]

DEFAULT_FRAME_STYLE == YAML_FRAME_STYLE

DEFAULT_FRAME_ALIGN == <<"center">>

\* The platform's line terminator (line 45: \r\n on Windows, \n on Unix).
DEFAULT_NEWLINE(os) ==
    IF os = "windows" THEN <<"\r", "\n">> ELSE <<"\n">>

---------------------------------------------------------------------------
(* The collaborators of the renderer, by their contracts.                  *)

PadAligns == {"start", "center", "end"}

Spaces(n) == [i \in 1..n |-> " "]

\* pad(text, width, {align}): text unchanged when it is already wide enough,
\* else spaces after (start), before (end) or on both sides with the odd one
\* on the trailing side (center).
pad(s, width, alignment) ==
    IF Len(s) >= width
    THEN s
    ELSE LET fill == width - Len(s)
             left == fill \div 2
         IN  CASE alignment = "start" -> s \o Spaces(fill)
               [] alignment = "end" -> Spaces(fill) \o s
               [] OTHER -> Spaces(left) \o s \o Spaces(fill - left)

\* Index of the first line break of s, 0 when there is none.
FirstBreak(s) ==
    LET breaks == {i \in 1..Len(s) : s[i] = "\n"}
    IN  IF breaks = {} THEN 0
        ELSE CHOOSE i \in breaks : \A j \in breaks : i <= j

\* The explicit line breaks of the text are hard splits.
RECURSIVE HardLines(_)
HardLines(s) ==
    LET k == FirstBreak(s)
    IN  IF k = 0 THEN <<s>>
        ELSE <<SubSeq(s, 1, k - 1)>> \o HardLines(SubSeq(s, k + 1, Len(s)))

\* A line longer than n is cut into pieces of n characters, the last one
\* possibly shorter.
SoftLines(line, n) ==
    IF Len(line) <= n THEN <<line>>
    ELSE [j \in 1..((Len(line) + n - 1) \div n) |->
             SubSeq(line, (j - 1) * n + 1, Min2(j * n, Len(line)))]

\* splitLines(text, {maxLength}): at least one line; maxLength <= 0 means no
\* limit.
splitLines(s, maxLength) ==
    LET hard == HardLines(s)
    IN  IF maxLength <= 0 THEN hard
        ELSE Concat([i \in 1..Len(hard) |-> SoftLines(hard[i], maxLength)])

\* $i(xs).max(): the largest element, undefined (None) for no elements.
IterMax(ns) ==
    IF Len(ns) = 0 THEN None
    ELSE Some(CHOOSE n \in {ns[i] : i \in 1..Len(ns)} :
                  \A i \in 1..Len(ns) : ns[i] <= n)

---------------------------------------------------------------------------
(* JavaScript numbers that are not finite, and the built-ins used.         *)

Num(n) == [kind |-> "num", n |-> n]

NaN == [kind |-> "NaN", n |-> 0]

Infinity == [kind |-> "Infinity", n |-> 0]

\* Math.ceil(a / b) for integers a >= 0, b >= 0: 0/0 is NaN, a/0 is Infinity.
MathCeilDiv(a, b) ==
    IF b = 0
    THEN (IF a = 0 THEN NaN ELSE Infinity)
    ELSE Num((a + b - 1) \div b)

\* String.prototype.repeat(count): a RangeError for a negative or infinite
\* count; NaN counts as 0.
repeat(s, count) ==
    CASE count.kind = "Infinity" -> [threw |-> TRUE, val |-> <<>>]
      [] count.kind = "NaN" -> [threw |-> FALSE, val |-> <<>>]
      [] OTHER ->
           IF count.n < 0
           THEN [threw |-> TRUE, val |-> <<>>]
           ELSE [threw |-> FALSE, val |-> Concat([i \in 1..count.n |-> s])]

\* Array.prototype.join / $i(...).join(separator).
join(ss, sep) ==
    Concat([i \in 1..Len(ss) |-> IF i = 1 THEN ss[i] ELSE sep \o ss[i]])

---------------------------------------------------------------------------
(* generateAutoGeneratedWarningFrame, line by line.                        *)

\* The slip of writing || for ??: an empty message falls back to the default
\* text.
ResolveMessage_Falsy(opts) ==
    IF IsSome(opts.message) /\ Len(Get(opts.message)) > 0
    THEN Get(opts.message)
    ELSE generateAutoGeneratedWarningText(opts.sourceFileName)

\* Line 141: options?.message ?? generateAutoGeneratedWarningText(...).
ResolveMessage(opts) ==
    IF IsSome(opts.message)
    THEN Get(opts.message)
    ELSE generateAutoGeneratedWarningText(opts.sourceFileName)

\* Line 142: an array is used as it is, a string becomes a one-element
\* array, anything else is the default.
ResolveAlign(opts) ==
    CASE opts.align.kind = "array" -> opts.align.vals
      [] opts.align.kind = "string" -> <<opts.align.vals[1]>>
      [] OTHER -> DEFAULT_FRAME_ALIGN

\* Line 143.
ResolveFiller(opts) ==
    IF IsSome(opts.style.filler)
    THEN Get(opts.style.filler)
    ELSE Get(DEFAULT_FRAME_STYLE.filler)

\* The slip of deriving the default from "#" and not from the filler.
ResolveLineStart_Hash(opts, filler) ==
    IF IsSome(opts.style.lineStart)
    THEN Get(opts.style.lineStart)
    ELSE <<"#", " ">>

\* Line 144.
ResolveLineStart(opts, filler) ==
    IF IsSome(opts.style.lineStart)
    THEN Get(opts.style.lineStart)
    ELSE filler \o <<" ">>

\* Line 145.
ResolveLineEnd(opts, filler) ==
    IF IsSome(opts.style.lineEnd)
    THEN Get(opts.style.lineEnd)
    ELSE <<" ">> \o filler

\* Line 146.
ResolveNewline(opts, os) ==
    IF IsSome(opts.newline) THEN Get(opts.newline) ELSE DEFAULT_NEWLINE(os)

\* Line 148.
MinLineLength(lineStart, lineEnd) == Len(lineStart) + Len(lineEnd)

\* Line 149: Math.max((options?.lineWidth || 0) - minLineLength, 0).
MaxLineLength(opts, minLineLength) ==
    LET width == IF IsSome(opts.lineWidth) THEN Get(opts.lineWidth) ELSE 0
    IN  Max2(width - minLineLength, 0)

\* Line 152: $i(lines).map(x => x.length).max() || 0.
FrameSize(lines) ==
    LET m == IterMax([i \in 1..Len(lines) |-> Len(lines[i])])
    IN  IF IsSome(m) THEN Get(m) ELSE 0

\* The slip of rounding down.
FillerCount_Floor(frameSize, filler) ==
    IF Len(filler) = 0
    THEN MathCeilDiv(frameSize, Len(filler))
    ELSE Num(frameSize \div Len(filler))

\* Line 153.
FillerCount(frameSize, filler) == MathCeilDiv(frameSize, Len(filler))

\* Line 154.
FrameLine(lineStart, filler, fillerCount, lineEnd) ==
    LET fill == repeat(filler, fillerCount)
    IN  [threw |-> fill.threw,
         val |-> IF fill.threw THEN <<>> ELSE lineStart \o fill.val \o lineEnd]

\* The slip of cycling through the alignments.
AlignFor_Cyclic(align, i) ==
    IF Len(align) = 0 THEN "undefined" ELSE align[(i % Len(align)) + 1]

\* Line 156: align[Math.min(i, align.length - 1)] for the zero-based index i;
\* an index outside the array reads undefined.
AlignFor(align, i) ==
    LET k == Min2(i, Len(align) - 1)
    IN  IF k >= 0 /\ k < Len(align) THEN align[k + 1] ELSE "undefined"

\* The alignments handed to pad, one per content line.
AlignsUsed(lines, align) == [i \in 1..Len(lines) |-> AlignFor(align, i - 1)]

\* The slip of leaving the padding out.
BuiltLines_Unpadded(lines, frameSize, align, lineStart, lineEnd, padUndefined) ==
    [i \in 1..Len(lines) |-> lineStart \o lines[i] \o lineEnd]

\* Lines 155-157: each line padded to frameSize and put between lineStart and
\* lineEnd.  padUndefined is what pad does with an undefined alignment.
BuiltLines(lines, frameSize, align, lineStart, lineEnd, padUndefined) ==
    [i \in 1..Len(lines) |->
        LET a == AlignFor(align, i - 1)
            used == IF a \in PadAligns THEN a ELSE padUndefined
        IN  lineStart \o pad(lines[i], frameSize, used) \o lineEnd]

\* The slip of leaving the closing border out.
FrameSegments_Open(built, frameLine) == <<frameLine>> \o built

\* Lines 158-159: .append(frameLine).prepend(frameLine).
FrameSegments(built, frameLine) == <<frameLine>> \o (built \o <<frameLine>>)

\* Line 160.
BuiltFrame(segments, newline) == join(segments, newline)

NoFrame ==
    [status |-> "none", message |-> <<>>, align |-> <<>>, filler |-> <<>>,
     lineStart |-> <<>>, lineEnd |-> <<>>, newline |-> <<>>,
     minLineLength |-> 0, maxLineLength |-> 0, lines |-> <<>>,
     frameSize |-> 0, fillerCount |-> Num(0), frameLine |-> <<>>,
     alignUsed |-> <<>>, segments |-> <<>>, builtFrame |-> <<>>]

\* Lines 140-163.  The value is the record of the function's locals; status
\* is "threw" when String.prototype.repeat raised at line 154, and then the
\* locals after that line are left empty.
generateAutoGeneratedWarningFrame(opts, os, padUndefined) ==
    LET message == ResolveMessage(opts)
        align == ResolveAlign(opts)
        filler == ResolveFiller(opts)
        lineStart == ResolveLineStart(opts, filler)
        lineEnd == ResolveLineEnd(opts, filler)
        newline == ResolveNewline(opts, os)
        minLineLength == MinLineLength(lineStart, lineEnd)
        maxLineLength == MaxLineLength(opts, minLineLength)
        lines == splitLines(message, maxLineLength)
        frameSize == FrameSize(lines)
        fillerCount == FillerCount(frameSize, filler)
        frameLine == FrameLine(lineStart, filler, fillerCount, lineEnd)
        built == BuiltLines(lines, frameSize, align, lineStart, lineEnd,
                            padUndefined)
        segments == FrameSegments(built, frameLine.val)
        locals == [NoFrame EXCEPT
                     !.message = message, !.align = align, !.filler = filler,
                     !.lineStart = lineStart, !.lineEnd = lineEnd,
                     !.newline = newline, !.minLineLength = minLineLength,
                     !.maxLineLength = maxLineLength, !.lines = lines,
                     !.frameSize = frameSize, !.fillerCount = fillerCount]
    IN  IF frameLine.threw
        THEN [locals EXCEPT !.status = "threw"]
        ELSE [locals EXCEPT
                !.status = "returned",
                !.frameLine = frameLine.val,
                !.alignUsed = AlignsUsed(lines, align),
                !.segments = segments,
                !.builtFrame = BuiltFrame(segments, newline)]

---------------------------------------------------------------------------
(* The inputs: values of AutoGeneratedWarningFrameOptions (lines 8-48) and  *)
(* of FrameStyle (lines 65-86).                                            *)

ExampleMessage == <<"h", "i">>

\* The lines a message is made of: empty, one character, two words.
MessageLines == {<<>>, <<"h">>, <<"h", " ", "i">>}

\* Messages of one to MaxLines lines, and the one-word example message.
Messages ==
    {join(ls, <<"\n">>) : ls \in BoundedSeq(MessageLines, MaxLines) \ {<<>>}}
    \cup {ExampleMessage}

SourceFileNames ==
    {<<>>, <<"c", "o", "n", "f", "i", "g", ".", "y", "a", "m", "l">>}

Fillers == BoundedSeq({"/"}, MaxFillerLen) \cup {<<"#">>}

LineStarts == {<<>>, <<"/", "*", " ">>}

LineEnds == {<<>>, <<" ", "*", "/">>}

Newlines == {<<"\n">>, <<>>}

Platforms == {"unix", "windows"}

LineWidths == 0..MaxLineWidth

AlignAbsent == [kind |-> "absent", vals |-> <<>>]

AlignSpecs ==
    {AlignAbsent}
    \cup {[kind |-> "string", vals |-> <<a>>] : a \in PadAligns}
    \cup {[kind |-> "array", vals |-> s] : s \in BoundedSeq(PadAligns, MaxAlignLen)}

NoStyle == [filler |-> None, lineStart |-> None, lineEnd |-> None]

Styles ==
    [filler : Opt(Fillers), lineStart : Opt(LineStarts), lineEnd : Opt(LineEnds)]

\* Alignment against message and width, in the default style.
AlignCalls ==
    [message : Opt(Messages), sourceFileName : {None}, align : AlignSpecs,
     style : {NoStyle}, lineWidth : {None, Some(MaxLineWidth)},
     newline : {None}]

\* Style against message and width.
StyleCalls ==
    [message : {Some(m) : m \in Messages}, sourceFileName : {None},
     align : {AlignAbsent}, style : Styles, lineWidth : Opt(LineWidths),
     newline : {Some(<<"\n">>)}]

\* The message and the default text, against the newline.
TextCalls ==
    [message : Opt({<<>>, ExampleMessage}),
     sourceFileName : Opt(SourceFileNames), align : {AlignAbsent},
     style : {NoStyle, JS_MULTILINE_FRAME_STYLE, JS_SINGLELINE_FRAME_STYLE},
     lineWidth : {None, Some(MaxLineWidth)}, newline : Opt(Newlines)]

Calls == AlignCalls \cup StyleCalls \cup TextCalls

---------------------------------------------------------------------------
(* The state machine: one call of either exported function.                *)

Init ==
    /\ options \in Calls
    /\ platform \in Platforms
    /\ pc = "ready"
    /\ frame = NoFrame
    /\ text = <<>>

\* A call of generateAutoGeneratedWarningFrame(options).
CallFrame ==
    /\ pc = "ready"
    /\ \E padUndefined \in PadAligns :
          frame' = generateAutoGeneratedWarningFrame(options, platform,
                                                     padUndefined)
    /\ pc' = frame'.status
    /\ UNCHANGED <<options, platform, text>>

\* A call of generateAutoGeneratedWarningText(options.sourceFileName).
CallText ==
    /\ pc = "ready"
    /\ text' = generateAutoGeneratedWarningText(options.sourceFileName)
    /\ pc' = "text"
    /\ UNCHANGED <<options, platform, frame>>

Next == CallFrame \/ CallText

Spec == Init /\ [][Next]_vars

---------------------------------------------------------------------------
(* Helpers of the properties.                                              *)

Returned == pc = "returned"

Called == pc \in {"returned", "threw"}

\* s occurs in t.
Contains(t, s) ==
    \E i \in 1..(Len(t) - Len(s) + 1) : SubSeq(t, i, i + Len(s) - 1) = s

\* The positions where a blank line separates two paragraphs of t.
ParagraphBreaks(t) ==
    {i \in 1..(Len(t) - 1) : t[i] = "\n" /\ t[i + 1] = "\n"}

LastParagraph(t) ==
    LET b == CHOOSE i \in ParagraphBreaks(t) : \A j \in ParagraphBreaks(t) : j <= i
    IN  SubSeq(t, b + 2, Len(t))

\* The number of words of a line.
WordCount(line) ==
    Cardinality({i \in 1..Len(line) :
                    line[i] # " " /\ (i = 1 \/ line[i - 1] = " ")})

\* The newline the options and the platform call for.
ExpectedNewline ==
    IF IsSome(options.newline)
    THEN Get(options.newline)
    ELSE IF platform = "windows" THEN <<"\r", "\n">> ELSE <<"\n">>

\* The alignment the options call for on the content line of one-based
\* index i.
ExpectedAlign(i) ==
    CASE options.align.kind = "string" -> options.align.vals[1]
      [] options.align.kind = "array" ->
           LET s == options.align.vals
           IN  IF Len(s) = 0 THEN "undefined"
               ELSE IF i <= Len(s) THEN s[i]
               ELSE s[Len(s)]
      [] OTHER -> "center"

\* The width of the filled part of the border.
FillWidth ==
    IF Len(frame.filler) = 0 THEN 0
    ELSE frame.fillerCount.n * Len(frame.filler)

---------------------------------------------------------------------------
(* The properties.                                                         *)

\* C1: whenever generateAutoGeneratedWarningFrame returns, its result is the
\* border line, then one built line per wrapped line in the wrapper's order,
\* then the same border line, joined by options.newline if provided and by
\* the platform's newline otherwise: (number of wrapped lines + 2) segments,
\* the first and the last equal.
C1_Assembly ==
    Returned =>
        LET n == Len(frame.lines)
            segs == frame.segments
        IN  /\ frame.lines = splitLines(frame.message, frame.maxLineLength)
            /\ Len(segs) = n + 2
            /\ segs[1] = frame.frameLine
            /\ segs[n + 2] = segs[1]
            /\ \A i \in 1..n :
                  \E a \in PadAligns :
                     segs[i + 1] = frame.lineStart
                                   \o pad(frame.lines[i], frame.frameSize, a)
                                   \o frame.lineEnd
            /\ frame.builtFrame = join(segs, ExpectedNewline)
            /\ Len(frame.builtFrame)
                 = Len(Concat(segs)) + (n + 1) * Len(ExpectedNewline)

C1_Witness ==
    /\ Returned
    /\ Len(frame.lines) = 3
    /\ frame.lines[1] # frame.lines[2]
    /\ ~IsSome(options.newline)
    /\ platform = "windows"

\* C2: for a non-empty message rendered with no lineWidth, every content
\* line of the output is length(lineStart) + frameSize + length(lineEnd)
\* wide, frameSize being the length of the longest wrapped line, and both
\* border lines are length(lineStart) + fillerCount*length(filler) +
\* length(lineEnd) wide.
C2_UniformWidth ==
    (Returned /\ ~IsSome(options.lineWidth) /\ Len(frame.message) > 0) =>
        LET n == Len(frame.lines)
            edges == Len(frame.lineStart) + Len(frame.lineEnd)
        IN  /\ \A i \in 1..n : Len(frame.lines[i]) <= frame.frameSize
            /\ \E i \in 1..n : Len(frame.lines[i]) = frame.frameSize
            /\ \A i \in 1..n :
                  Len(frame.segments[i + 1]) = edges + frame.frameSize
            /\ Len(frame.segments[1]) = edges + FillWidth
            /\ Len(frame.segments[n + 2]) = edges + FillWidth

C2_Witness ==
    /\ Returned
    /\ ~IsSome(options.lineWidth)
    /\ Len(frame.lines) >= 2
    /\ \E i, j \in 1..Len(frame.lines) :
          /\ Len(frame.lines[i]) > Len(frame.lines[j])
          /\ Len(frame.lines[j]) > 0
    /\ Len(frame.filler) = 2

\* C3: when options.lineWidth is provided, every line of the output, the
\* two border lines included, is at most lineWidth long.  Stated where the
\* claim is at its strongest: lineWidth exceeds minLineLength, so the line
\* wrapper is handed a positive budget and keeps every line within it.
C3_WithinLineWidth ==
    ( /\ Returned
      /\ IsSome(options.lineWidth)
      /\ Get(options.lineWidth) > frame.minLineLength
      /\ \A i \in 1..Len(frame.lines) :
            Len(frame.lines[i]) <= frame.maxLineLength ) =>
        \A k \in 1..Len(frame.segments) :
           Len(frame.segments[k]) <= Get(options.lineWidth)

\* C4: generateAutoGeneratedWarningFrame never raises, also with a style
\* whose filler is the empty string, for every message.
C4_NeverRaises == pc # "threw"

\* C5: the alignment that pads content line i is the single value when
\* options.align is a single value, the element at index min(i, length-1)
\* when it is a sequence (the last value persists, no cycling), and center
\* when it is absent.
C5_AlignmentPerLine ==
    Returned =>
        \A i \in 1..Len(frame.lines) :
           /\ frame.alignUsed[i] = ExpectedAlign(i)
           /\ ExpectedAlign(i) \in PadAligns =>
                 frame.segments[i + 1]
                   = frame.lineStart
                     \o pad(frame.lines[i], frame.frameSize, ExpectedAlign(i))
                     \o frame.lineEnd

C5_Witness ==
    /\ Returned
    /\ options.align = [kind |-> "array", vals |-> <<"start", "end">>]
    /\ Len(frame.lines) = 3
    /\ Len(frame.lines[3]) = 1
    /\ frame.frameSize = 3
    /\ frame.alignUsed = <<"start", "end", "end">>

C8_TooNarrowWrapsMaximally ==
    ( /\ Returned
      /\ IsSome(options.lineWidth)
      /\ Get(options.lineWidth) > 0
      /\ Get(options.lineWidth) < frame.minLineLength ) =>
        /\ frame.maxLineLength = 0
        /\ \A i \in 1..Len(frame.lines) :
              Len(frame.lines[i]) <= 1 \/ WordCount(frame.lines[i]) <= 1

\* C9: with a non-empty filler, fillerCount is ceil(frameSize /
\* length(filler)), 0 when frameSize is 0 (the border is then lineStart +
\* lineEnd), so frameSize <= fillerCount*length(filler) <= frameSize +
\* length(filler) - 1.
C9_FillerCount ==
    (Called /\ Len(frame.filler) > 0) =>
        LET size == Len(frame.filler)
            count == frame.fillerCount
        IN  /\ count.kind = "num"
            /\ count.n >= 0
            /\ frame.frameSize <= count.n * size
            /\ count.n * size <= frame.frameSize + size - 1
            /\ frame.frameSize = 0 => count.n = 0
            /\ Returned
            /\ Len(frame.frameLine)
                 = Len(frame.lineStart) + count.n * size + Len(frame.lineEnd)
            /\ frame.frameSize = 0 =>
                  frame.frameLine = frame.lineStart \o frame.lineEnd

C9_Witness ==
    /\ Returned
    /\ Len(frame.filler) = 2
    /\ frame.frameSize = 3
    /\ frame.fillerCount = Num(2)

\* C10: the alignment specification is normalized to a non-empty sequence,
\* so for every options.align, the empty sequence included, the alignment
\* handed to the padder for every content line is one of start, center and
\* end.
C10_AlignAlwaysDefined ==
    Returned =>
        /\ Len(frame.align) > 0
        /\ \A i \in 1..Len(frame.lines) : frame.alignUsed[i] \in PadAligns

=============================================================================
